---- MODULE Spec2Model ----
(***************************************************************************)
(* The MPSC channel of src/main.rs: Sender (clone, drop, send), Reciever   *)
(* (recv, drop), the Mutex<Inner> they share and the Condvar `available`.  *)
(* Every Sender handle is used by one thread; the Reciever by one thread.  *)
(***************************************************************************)
EXTENDS Integers, Sequences, FiniteSets, TLC

\* ------------------------------------------------------------------ bounds
\* Number of Sender handles that ever exist (the first one plus the clones).
NumSenders == 2
\* Number of send calls made over the life of the channel.
MaxSends == 3
\* Number of send calls in the runs checked under fair scheduling.
FairSends == 2

Handles == 1..NumSenders

VARIABLES
  queue,          \* Inner.queue
  senders_count,  \* Inner.senders_count
  active,         \* Inner.is_channel_still_active
  lock,           \* who holds the guard of Shared.inner
  buffer,         \* Reciever.buffer
  pc,             \* per Sender handle: where its thread is
  data,           \* per Sender handle: the argument of the send in progress
                  \* (kept until send returns)
  res,            \* per Sender handle: the result of its last send
  cpc,            \* where the Reciever's thread is
  cres,           \* the result of the last recv
  sent,           \* history: the elements in the order push_back appended them
  received,       \* history: the elements recv returned, in order
  nsend,          \* history: number of send calls made so far
  notifies,       \* history: number of notify_one calls on `available`
  gotNone,        \* history: some recv has returned None
  refQueue,       \* the queue of the reference channel, which has no buffer
  lockFree,       \* history: number of recv calls returned since recv last
                  \* acquired the lock
  found           \* history: length of the queue recv found when it last popped
                  \* it under the lock (0: no such pop since the last lock)

vars == <<queue, senders_count, active, lock, buffer, pc, data, res, cpc, cres,
          sent, received, nsend, notifies, gotNone, refQueue, lockFree,
          found>>

shared == <<queue, senders_count, active>>
hist == <<sent, received, nsend, gotNone, refQueue, lockFree, found>>

\* ------------------------------------------------------------ the mutex
Unlocked == <<"none", 0>>
RxGuard == <<"rx", 0>>
TxGuard(p) == <<"tx", p>>

\* An element of the queue: the value, tagged with the handle that sent it.
Elem(p, v) == [src |-> p, val |-> v]
NoData == 0

Pending == <<"Pending">>
RecvNone == <<"None">>
RecvSome(e) == <<"Some", e>>

\* The reference channel: the same channel without Reciever.buffer. Its send
\* appends to its queue; its recv takes the lock every time and pops the front
\* of its queue, or returns None when the queue is empty and no Sender lives.
RefSend(q, e) == Append(q, e)
RefRecv(q) == IF q = <<>> THEN RecvNone ELSE RecvSome(Head(q))
RefRest(q) == IF q = <<>> THEN q ELSE Tail(q)

\* A Sender handle that exists and whose Drop has not run its decrement.
Live(p) == pc[p] \in {"idle", "send_entry", "send_locked", "send_pushed", "send_notify",
                      "clone_locked", "drop_locked"}
LiveSenders == {p \in Handles : Live(p)}
Unborn == {p \in Handles : pc[p] = "unborn"}
NextHandle == CHOOSE q \in Unborn : \A r \in Unborn : q <= r

\* ------------------------------------------------------------ the condvar
\* notify_one: the Reciever is the only thread that ever waits.
NotifyOne(c) == IF c = "waiting" THEN "woken" ELSE c

\* ---------------------------------------------------------------- channel()
Init ==
  /\ queue = <<>>
  /\ senders_count = 1
  /\ active = TRUE
  /\ lock = Unlocked
  /\ buffer = <<>>
  /\ pc = [p \in Handles |-> IF p = 1 THEN "idle" ELSE "unborn"]
  /\ data = [p \in Handles |-> NoData]
  /\ res = [p \in Handles |-> "none"]
  /\ cpc = "idle"
  /\ cres = Pending
  /\ sent = <<>>
  /\ received = <<>>
  /\ nsend = 0
  /\ notifies = 0
  /\ gotNone = FALSE
  /\ refQueue = <<>>
  /\ lockFree = 0
  /\ found = 0

\* ------------------------------------------------------------ Sender::clone
\* Mutant: clone forgets the increment.
CloneLockNoInc(p) ==
  /\ pc[p] = "idle"
  /\ Unborn # {}
  /\ lock = Unlocked
  /\ lock' = TxGuard(p)
  /\ pc' = [pc EXCEPT ![p] = "clone_locked"]
  /\ UNCHANGED <<shared, buffer, data, res, cpc, cres, hist, notifies>>

CloneLock(p) ==
  /\ pc[p] = "idle"
  /\ Unborn # {}
  /\ lock = Unlocked
  /\ lock' = TxGuard(p)
  /\ senders_count' = senders_count + 1
  /\ pc' = [pc EXCEPT ![p] = "clone_locked"]
  /\ UNCHANGED <<queue, active, buffer, data, res, cpc, cres, hist, notifies>>

CloneReturn(p) ==
  /\ pc[p] = "clone_locked"
  /\ lock' = Unlocked
  /\ pc' = [pc EXCEPT ![p] = "idle", ![NextHandle] = "idle"]
  /\ UNCHANGED <<shared, buffer, data, res, cpc, cres, hist, notifies>>

\* ------------------------------------------------------------- Sender::drop
DropLock(p) ==
  /\ pc[p] = "idle"
  /\ lock = Unlocked
  /\ lock' = TxGuard(p)
  /\ pc' = [pc EXCEPT ![p] = "drop_locked"]
  /\ UNCHANGED <<shared, buffer, data, res, cpc, cres, hist, notifies>>

\* Mutant: the last drop does not notify the Reciever.
DropDecNoNotify(p) ==
  /\ pc[p] = "drop_locked"
  /\ senders_count' = senders_count - 1
  /\ pc' = [pc EXCEPT ![p] = "drop_done"]
  /\ UNCHANGED <<queue, active, lock, buffer, data, res, cpc, cres, hist,
                 notifies>>

\* Mutant: every drop notifies, whatever the count.
DropDecAlwaysNotifies(p) ==
  /\ pc[p] = "drop_locked"
  /\ senders_count' = senders_count - 1
  /\ cpc' = NotifyOne(cpc)
  /\ notifies' = notifies + 1
  /\ pc' = [pc EXCEPT ![p] = "drop_done"]
  /\ UNCHANGED <<queue, active, lock, buffer, data, res, cres, hist>>

DropDec(p) ==
  /\ pc[p] = "drop_locked"
  /\ senders_count' = senders_count - 1
  /\ IF senders_count' = 0
       THEN /\ cpc' = NotifyOne(cpc)
            /\ notifies' = notifies + 1
       ELSE UNCHANGED <<cpc, notifies>>
  /\ pc' = [pc EXCEPT ![p] = "drop_done"]
  /\ UNCHANGED <<queue, active, lock, buffer, data, res, cres, hist>>

DropRelease(p) ==
  /\ pc[p] = "drop_done"
  /\ lock' = Unlocked
  /\ pc' = [pc EXCEPT ![p] = "dead"]
  /\ UNCHANGED <<shared, buffer, data, res, cpc, cres, hist, notifies>>

\* ------------------------------------------------------------- Sender::send
\* The code never inspects a value of T, so the model sends the most general
\* data: the k-th send call of the channel's life carries the value k.
SendCall(p) ==
  /\ pc[p] = "idle"
  /\ nsend < MaxSends
  /\ nsend' = nsend + 1
  /\ data' = [data EXCEPT ![p] = nsend + 1]
  /\ res' = [res EXCEPT ![p] = "none"]
  /\ pc' = [pc EXCEPT ![p] = "send_entry"]
  /\ UNCHANGED <<shared, lock, buffer, cpc, cres, sent, received, gotNone,
                 refQueue, lockFree, found, notifies>>

SendLock(p) ==
  /\ pc[p] = "send_entry"
  /\ lock = Unlocked
  /\ lock' = TxGuard(p)
  /\ pc' = [pc EXCEPT ![p] = "send_locked"]
  /\ UNCHANGED <<shared, buffer, data, res, cpc, cres, hist, notifies>>

\* Mutant: send does not look at the flag and appends on a closed channel.
SendClosedPushes(p) ==
  /\ pc[p] = "send_locked"
  /\ ~active
  /\ queue' = Append(queue, Elem(p, data[p]))
  /\ sent' = Append(sent, Elem(p, data[p]))
  /\ refQueue' = RefSend(refQueue, Elem(p, data[p]))
  /\ pc' = [pc EXCEPT ![p] = "send_pushed"]
  /\ UNCHANGED <<senders_count, active, lock, buffer, data, res, cpc, cres,
                 received, nsend, gotNone, lockFree, found, notifies>>

SendClosed(p) ==
  /\ pc[p] = "send_locked"
  /\ ~active
  /\ lock' = Unlocked
  /\ res' = [res EXCEPT ![p] = "Err"]
  /\ data' = [data EXCEPT ![p] = NoData]
  /\ pc' = [pc EXCEPT ![p] = "idle"]
  /\ UNCHANGED <<shared, buffer, cpc, cres, hist, notifies>>

\* Mutant: push_front instead of push_back.
SendPushFront(p) ==
  /\ pc[p] = "send_locked"
  /\ active
  /\ queue' = <<Elem(p, data[p])>> \o queue
  /\ sent' = Append(sent, Elem(p, data[p]))
  /\ refQueue' = RefSend(refQueue, Elem(p, data[p]))
  /\ pc' = [pc EXCEPT ![p] = "send_pushed"]
  /\ UNCHANGED <<senders_count, active, lock, buffer, data, res, cpc, cres,
                 received, nsend, gotNone, lockFree, found, notifies>>

\* Mutant: send refuses a value while another one is still queued.
SendPushIfEmpty(p) ==
  /\ pc[p] = "send_locked"
  /\ active
  /\ IF queue = <<>>
       THEN /\ queue' = Append(queue, Elem(p, data[p]))
            /\ sent' = Append(sent, Elem(p, data[p]))
            /\ refQueue' = RefSend(refQueue, Elem(p, data[p]))
            /\ pc' = [pc EXCEPT ![p] = "send_pushed"]
            /\ UNCHANGED <<lock, res>>
       ELSE /\ lock' = Unlocked
            /\ res' = [res EXCEPT ![p] = "Err"]
            /\ pc' = [pc EXCEPT ![p] = "idle"]
            /\ UNCHANGED <<queue, sent, refQueue>>
  /\ data' = [data EXCEPT ![p] = NoData]
  /\ UNCHANGED <<senders_count, active, buffer, cpc, cres, received, nsend,
                 gotNone, lockFree, found, notifies>>

SendPush(p) ==
  /\ pc[p] = "send_locked"
  /\ active
  /\ queue' = Append(queue, Elem(p, data[p]))
  /\ sent' = Append(sent, Elem(p, data[p]))
  /\ refQueue' = RefSend(refQueue, Elem(p, data[p]))
  /\ pc' = [pc EXCEPT ![p] = "send_pushed"]
  /\ UNCHANGED <<senders_count, active, lock, buffer, data, res, cpc, cres,
                 received, nsend, gotNone, lockFree, found, notifies>>

\* Mutant: no drop(channel); the guard lives on while send notifies.
SendUnlockKeepsGuard(p) ==
  /\ pc[p] = "send_pushed"
  /\ pc' = [pc EXCEPT ![p] = "send_notify"]
  /\ UNCHANGED <<shared, lock, buffer, data, res, cpc, cres, hist, notifies>>

SendUnlock(p) ==
  /\ pc[p] = "send_pushed"
  /\ lock' = Unlocked
  /\ pc' = [pc EXCEPT ![p] = "send_notify"]
  /\ UNCHANGED <<shared, buffer, data, res, cpc, cres, hist, notifies>>

\* Mutant: send returns without notify_one.
SendNoNotify(p) ==
  /\ pc[p] = "send_notify"
  /\ res' = [res EXCEPT ![p] = "Ok"]
  /\ data' = [data EXCEPT ![p] = NoData]
  /\ pc' = [pc EXCEPT ![p] = "idle"]
  /\ UNCHANGED <<shared, lock, buffer, cpc, cres, hist, notifies>>

SendNotify(p) ==
  /\ pc[p] = "send_notify"
  /\ cpc' = NotifyOne(cpc)
  /\ notifies' = notifies + 1
  /\ res' = [res EXCEPT ![p] = "Ok"]
  /\ data' = [data EXCEPT ![p] = NoData]
  /\ pc' = [pc EXCEPT ![p] = "idle"]
  /\ UNCHANGED <<shared, lock, buffer, cres, hist>>

\* ----------------------------------------------------------- Reciever::recv
RecvCall ==
  /\ cpc = "idle"
  /\ cres' = Pending
  /\ cpc' = "recv_entry"
  /\ UNCHANGED <<shared, lock, buffer, pc, data, res, hist, notifies>>

\* Mutant: the fast path takes the back of the buffer (pop_back).
RecvCachedBack ==
  /\ cpc = "recv_entry"
  /\ buffer # <<>>
  /\ cres' = RecvSome(buffer[Len(buffer)])
  /\ received' = Append(received, buffer[Len(buffer)])
  /\ refQueue' = RefRest(refQueue)
  /\ buffer' = SubSeq(buffer, 1, Len(buffer) - 1)
  /\ lockFree' = lockFree + 1
  /\ cpc' = "idle"
  /\ UNCHANGED <<shared, lock, pc, data, res, sent, nsend, gotNone, found,
                 notifies>>

RecvCached ==
  /\ cpc = "recv_entry"
  /\ buffer # <<>>
  /\ cres' = RecvSome(Head(buffer))
  /\ received' = Append(received, Head(buffer))
  /\ refQueue' = RefRest(refQueue)
  /\ buffer' = Tail(buffer)
  /\ cpc' = "idle"
  /\ lockFree' = lockFree + 1
  /\ UNCHANGED <<shared, lock, pc, data, res, sent, nsend, gotNone, found,
                 notifies>>

\* Mutant: recv has no fast path return and locks with values in its buffer.
RecvLockAlways ==
  /\ cpc = "recv_entry"
  /\ lock = Unlocked
  /\ lock' = RxGuard
  /\ lockFree' = 0
  /\ found' = 0
  /\ cpc' = "loop"
  /\ UNCHANGED <<shared, buffer, pc, data, res, cres, sent, received, nsend,
                 gotNone, refQueue, notifies>>

RecvLock ==
  /\ cpc = "recv_entry"
  /\ buffer = <<>>
  /\ lock = Unlocked
  /\ lock' = RxGuard
  /\ lockFree' = 0
  /\ found' = 0
  /\ cpc' = "loop"
  /\ UNCHANGED <<shared, buffer, pc, data, res, cres, sent, received, nsend,
                 gotNone, refQueue, notifies>>

\* Mutant: the rest of the queue stays in the queue (no swap).
RecvPopNoSwap ==
  /\ cpc = "loop"
  /\ queue # <<>>
  /\ queue' = Tail(queue)
  /\ cres' = RecvSome(Head(queue))
  /\ received' = Append(received, Head(queue))
  /\ refQueue' = RefRest(refQueue)
  /\ lock' = Unlocked
  /\ cpc' = "idle"
  /\ found' = Len(queue)
  /\ UNCHANGED <<senders_count, active, buffer, pc, data, res, sent, nsend,
                 gotNone, lockFree, notifies>>

\* Mutant: the rest of the queue is copied into the buffer, not moved.
RecvPopCopies ==
  /\ cpc = "loop"
  /\ queue # <<>>
  /\ queue' = Tail(queue)
  /\ buffer' = Tail(queue)
  /\ cres' = RecvSome(Head(queue))
  /\ received' = Append(received, Head(queue))
  /\ refQueue' = RefRest(refQueue)
  /\ lock' = Unlocked
  /\ cpc' = "idle"
  /\ found' = Len(queue)
  /\ UNCHANGED <<senders_count, active, pc, data, res, sent, nsend, gotNone,
                 lockFree, notifies>>

RecvPop ==
  /\ cpc = "loop"
  /\ queue # <<>>
  /\ IF Tail(queue) # <<>>
       THEN /\ queue' = buffer
            /\ buffer' = Tail(queue)
       ELSE /\ queue' = Tail(queue)
            /\ UNCHANGED buffer
  /\ cres' = RecvSome(Head(queue))
  /\ received' = Append(received, Head(queue))
  /\ refQueue' = RefRest(refQueue)
  /\ lock' = Unlocked
  /\ cpc' = "idle"
  /\ found' = Len(queue)
  /\ UNCHANGED <<senders_count, active, pc, data, res, sent, nsend, gotNone,
                 lockFree, notifies>>

\* Mutant: an empty queue ends the stream whatever senders_count is.
RecvEndEarly ==
  /\ cpc = "loop"
  /\ queue = <<>>
  /\ cres' = RecvNone
  /\ gotNone' = TRUE
  /\ lock' = Unlocked
  /\ cpc' = "idle"
  /\ UNCHANGED <<shared, buffer, pc, data, res, sent, received, nsend, refQueue,
                 lockFree, found, notifies>>

\* Mutant: senders_count = 0 ends the stream before the queue is looked at.
RecvEndNoQueueCheck ==
  /\ cpc = "loop"
  /\ senders_count = 0
  /\ cres' = RecvNone
  /\ gotNone' = TRUE
  /\ lock' = Unlocked
  /\ cpc' = "idle"
  /\ UNCHANGED <<shared, buffer, pc, data, res, sent, received, nsend, refQueue,
                 lockFree, found, notifies>>

RecvEnd ==
  /\ cpc = "loop"
  /\ queue = <<>>
  /\ senders_count = 0
  /\ cres' = RecvNone
  /\ gotNone' = TRUE
  /\ lock' = Unlocked
  /\ cpc' = "idle"
  /\ UNCHANGED <<shared, buffer, pc, data, res, sent, received, nsend, refQueue,
                 lockFree, found, notifies>>

\* Mutant: recv gives up with None instead of waiting.
RecvWaitReturns ==
  /\ cpc = "loop"
  /\ queue = <<>>
  /\ senders_count # 0
  /\ cres' = RecvNone
  /\ gotNone' = TRUE
  /\ lock' = Unlocked
  /\ cpc' = "idle"
  /\ UNCHANGED <<shared, buffer, pc, data, res, sent, received, nsend, refQueue,
                 lockFree, found, notifies>>

\* Mutant: the Reciever sleeps with the guard in its hands.
RecvWaitHoldsLock ==
  /\ cpc = "loop"
  /\ queue = <<>>
  /\ senders_count # 0
  /\ cpc' = "waiting"
  /\ UNCHANGED <<shared, lock, buffer, pc, data, res, cres, hist, notifies>>

RecvWait ==
  /\ cpc = "loop"
  /\ queue = <<>>
  /\ senders_count # 0
  /\ lock' = Unlocked
  /\ cpc' = "waiting"
  /\ UNCHANGED <<shared, buffer, pc, data, res, cres, hist, notifies>>

\* Condvar::wait may return without any notify_one.
SpuriousWake ==
  /\ cpc = "waiting"
  /\ cpc' = "woken"
  /\ UNCHANGED <<shared, lock, buffer, pc, data, res, cres, hist, notifies>>

\* Mutant: a wake is taken to mean the end of the stream when the queue is
\* empty, without looking at senders_count.
RecvRelockTrusts ==
  /\ cpc = "woken"
  /\ lock = Unlocked
  /\ IF queue = <<>>
       THEN /\ cres' = RecvNone
            /\ gotNone' = TRUE
            /\ cpc' = "idle"
            /\ UNCHANGED lock
       ELSE /\ lock' = RxGuard
            /\ cpc' = "loop"
            /\ UNCHANGED <<cres, gotNone>>
  /\ UNCHANGED <<shared, buffer, pc, data, res, sent, received, nsend, refQueue,
                 lockFree, found, notifies>>

RecvRelock ==
  /\ cpc = "woken"
  /\ lock = Unlocked
  /\ lock' = RxGuard
  /\ cpc' = "loop"
  /\ UNCHANGED <<shared, buffer, pc, data, res, cres, hist, notifies>>

\* ----------------------------------------------------------- Reciever::drop
RxDropLock ==
  /\ cpc = "idle"
  /\ lock = Unlocked
  /\ lock' = RxGuard
  /\ cpc' = "drop_locked"
  /\ UNCHANGED <<shared, buffer, pc, data, res, cres, hist, notifies>>

\* Mutant: the Reciever's drop forgets to clear the flag.
RxDropSetForgets ==
  /\ cpc = "drop_locked"
  /\ lock' = Unlocked
  /\ buffer' = <<>>
  /\ lockFree' = 0
  /\ found' = 0
  /\ cpc' = "dropped"
  /\ UNCHANGED <<shared, pc, data, res, cres, sent, received, nsend, gotNone,
                 refQueue, notifies>>

\* Mutant: the Reciever's drop also throws the queued values away.
RxDropSetClearsQueue ==
  /\ cpc = "drop_locked"
  /\ active' = FALSE
  /\ queue' = <<>>
  /\ lock' = Unlocked
  /\ buffer' = <<>>
  /\ lockFree' = 0
  /\ found' = 0
  /\ cpc' = "dropped"
  /\ UNCHANGED <<senders_count, pc, data, res, cres, sent, received, nsend,
                 gotNone, refQueue, notifies>>

RxDropSet ==
  /\ cpc = "drop_locked"
  /\ active' = FALSE
  /\ lock' = Unlocked
  /\ buffer' = <<>>
  /\ lockFree' = 0
  /\ found' = 0
  /\ cpc' = "dropped"
  /\ UNCHANGED <<queue, senders_count, pc, data, res, cres, sent, received,
                 nsend, gotNone, refQueue, notifies>>

\* ------------------------------------------------------------------- system
SenderStep(p) ==
  \/ CloneLock(p)
  \/ CloneReturn(p)
  \/ DropLock(p)
  \/ DropDec(p)
  \/ DropRelease(p)
  \/ SendCall(p)
  \/ SendLock(p)
  \/ SendClosed(p)
  \/ SendPush(p)
  \/ SendUnlock(p)
  \/ SendNotify(p)

RecieverStep ==
  \/ RecvCall
  \/ RecvCached
  \/ RecvLock
  \/ RecvPop
  \/ RecvEnd
  \/ RecvWait
  \/ SpuriousWake
  \/ RecvRelock
  \/ RxDropLock
  \/ RxDropSet

Next ==
  \/ \E p \in Handles : SenderStep(p)
  \/ RecieverStep

Spec == Init /\ [][Next]_vars

\* ------------------------------------------------------- fair scheduling
\* What a thread does once it is inside an operation: it runs on. Calling an
\* operation (SendCall, CloneLock, DropLock, RecvCall, RxDropLock) is the
\* caller's choice, and a spurious wake-up is never promised.
SenderRun(p) ==
  \/ CloneReturn(p)
  \/ DropDec(p)
  \/ DropRelease(p)
  \/ SendLock(p)
  \/ SendClosed(p)
  \/ SendPush(p)
  \/ SendUnlock(p)
  \/ SendNotify(p)

RecieverRun ==
  \/ RecvCached
  \/ RecvLock
  \/ RecvPop
  \/ RecvEnd
  \/ RecvWait
  \/ RecvRelock
  \/ RxDropSet

Fairness ==
  /\ \A p \in Handles : WF_vars(SenderRun(p))
  /\ WF_vars(RecieverRun)

\* The system again, with the callers making at most FairSends send calls.
FairSendCall(p) ==
  /\ nsend < FairSends
  /\ SendCall(p)

FairSenderStep(p) ==
  \/ CloneLock(p)
  \/ DropLock(p)
  \/ FairSendCall(p)
  \/ SenderRun(p)

FairNext ==
  \/ \E p \in Handles : FairSenderStep(p)
  \/ RecieverStep

LiveSpec == Init /\ [][FairNext]_vars /\ Fairness

\* ------------------------------------------------------------ vocabulary
IsPrefix(s, t) == Len(s) <= Len(t) /\ SubSeq(t, 1, Len(s)) = s
InRecv == cpc \in {"recv_entry", "loop", "waiting", "woken"}
\* The step in which a recv call returns.
RecvReturns == InRecv /\ cpc' = "idle"
Exhausted == senders_count = 0 /\ queue = <<>> /\ buffer = <<>>

\* ===================================================================== C1
\* C1: FIFO order. In every reachable state the sequence of elements recv
\* has returned is a prefix of the sequence in the order push_back appended
\* them under the lock, and the elements of any one Sender are received in
\* the order that Sender called send (its calls carry increasing values).
FifoOrder ==
  /\ IsPrefix(received, sent)
  /\ \A i, j \in 1..Len(received) :
       (i < j /\ received[i].src = received[j].src)
         => received[i].val < received[j].val

\* Three values received; the first one's send was called after the second
\* one's (another Sender overtook it at the lock), and the first and third
\* come from the same Sender.
FifoOrderWitness ==
  /\ Len(received) = 3
  /\ received[1].val > received[2].val
  /\ received[1].src = received[3].src
  /\ received[1].src # received[2].src

\* ===================================================================== C2
\* C2: Exhaustion. A recv that returns when senders_count is 0 and queue and
\* buffer are empty returns None; that condition, once true, stays true; and
\* after some recv has returned None every recv that returns returns None.
Exhaustion ==
  [][/\ (RecvReturns /\ (Exhausted \/ gotNone)) => cres' = RecvNone
     /\ Exhausted => Exhausted'
     /\ gotNone => Exhausted]_vars

\* A later recv call, inside the locked loop, after an earlier recv returned
\* None at the end of a stream that delivered values.
ExhaustionWitness ==
  /\ gotNone
  /\ cres = Pending
  /\ cpc = "loop"
  /\ received # <<>>

\* ===================================================================== C3
\* C3: Close-rejects-send. Once the Reciever is dropped the flag is false,
\* nothing is appended to the queue any more, and every send that takes the
\* lock returns Err without a notify_one, also when the queue is not empty.
CloseRejectsSend ==
  [][cpc = "dropped" =>
       /\ ~active
       /\ queue' = queue
       /\ sent' = sent
       /\ \A p \in Handles :
            (pc[p] = "send_locked" /\ pc'[p] # "send_locked")
              => /\ pc'[p] = "idle"
                 /\ res'[p] = "Err"
                 /\ notifies' = notifies
            ]_vars

\* A send was rejected while an earlier value is still unread in the queue.
CloseRejectsSendWitness ==
  /\ cpc = "dropped"
  /\ queue # <<>>
  /\ \E p \in Handles : res[p] = "Err" /\ pc[p] = "idle"

\* ===================================================================== C4
\* C4: a send fails only when the Reciever has been dropped. A send that
\* holds the lock with the flag true appends exactly its value at the back of
\* the queue and then returns Ok; Err is returned only with the Reciever
\* dropped; send returns Ok or Err and recv returns Some or None, nothing else.
SendResults == {"none", "Ok", "Err"}
SendFailsOnlyWhenClosed ==
  [][/\ \A p \in Handles :
          /\ (pc[p] = "send_locked" /\ active /\ pc'[p] # "send_locked")
               => /\ queue' = Append(queue, Elem(p, data[p]))
                  /\ pc'[p] = "send_pushed"
          /\ (pc[p] \in {"send_pushed", "send_notify"} /\ pc'[p] = "idle")
               => res'[p] = "Ok"
          /\ res'[p] = "Err" => cpc' = "dropped"
          /\ res'[p] \in SendResults
     /\ cres' = Pending \/ cres' = RecvNone
          \/ (Len(cres') = 2 /\ cres'[1] = "Some")]_vars

\* A send has just appended its value behind another one, with two Senders
\* alive and values waiting in the Reciever's buffer.
SendFailsOnlyWhenClosedWitness ==
  /\ \E p \in Handles : pc[p] = "send_pushed"
  /\ Len(queue) >= 1
  /\ buffer # <<>>
  /\ senders_count = 2

\* ===================================================================== C5
\* C5: no premature end of stream. In the step in which recv returns None,
\* senders_count is 0, queue and buffer are empty, and every element a send
\* appended has been returned by an earlier recv.
NoPrematureEnd ==
  [][(RecvReturns /\ cres' = RecvNone) =>
       /\ senders_count = 0
       /\ queue = <<>>
       /\ buffer = <<>>
       /\ received = sent
       /\ received' = sent']_vars

\* None was returned after two values, the second sent through the buffer,
\* were delivered.
NoPrematureEndWitness ==
  /\ cpc = "idle"
  /\ cres = RecvNone
  /\ Len(received) >= 2
  /\ \E p \in Handles : pc[p] = "dead" /\ res[p] = "Ok"

\* ===================================================================== C6
\* C6: recv blocks while there is nothing to deliver. No step returns from
\* recv while buffer and queue are empty and senders_count > 0; a recv that
\* returns returns the front of the buffer, or the front of the queue, or
\* None with senders_count = 0.
RecvBlocks ==
  [][/\ (InRecv /\ buffer = <<>> /\ queue = <<>> /\ senders_count > 0)
          => cpc' # "idle"
     /\ RecvReturns =>
          \/ /\ cpc = "recv_entry"
             /\ buffer # <<>>
             /\ cres' = RecvSome(Head(buffer))
          \/ /\ cpc = "loop"
             /\ buffer = <<>>
             /\ queue # <<>>
             /\ cres' = RecvSome(Head(queue))
          \/ /\ cpc = "loop"
             /\ cres' = RecvNone
             /\ senders_count = 0]_vars

\* The Reciever waits on the condvar, after having delivered a value, with
\* nothing to deliver and a Sender alive.
RecvBlocksWitness ==
  /\ cpc = "waiting"
  /\ queue = <<>>
  /\ buffer = <<>>
  /\ senders_count > 0
  /\ received # <<>>

\* ===================================================================== C7
\* C7: no lost wake-up on send. Under fair scheduling, whenever the Reciever
\* is inside recv and the queue is not empty, that recv eventually returns a
\* value.
NoLostWakeupOnSend ==
  (InRecv /\ queue # <<>>) ~> (cpc = "idle" /\ cres[1] = "Some")

\* The Reciever is asleep on the condvar and a send has appended its value
\* and released the lock, but has not called notify_one yet.
NoLostWakeupOnSendWitness ==
  /\ cpc = "waiting"
  /\ queue # <<>>
  /\ \E p \in Handles : pc[p] = "send_notify"

\* ===================================================================== C8
\* C8: no lost wake-up on the last Sender's drop. Under fair scheduling,
\* whenever the Reciever is inside recv with nothing to deliver and
\* senders_count is 0, that recv eventually returns None.
NoLostWakeupOnDrop ==
  (InRecv /\ Exhausted) ~> (cpc = "idle" /\ cres = RecvNone)

\* The last Sender's drop has decremented the count to 0 and notified; the
\* Reciever is woken and waits for the lock the drop still holds.
NoLostWakeupOnDropWitness ==
  /\ cpc = "woken"
  /\ Exhausted
  /\ \E p \in Handles : pc[p] = "drop_done"

\* ===================================================================== C9
\* C9: senders_count is 1 after construction; whenever the lock is free it
\* equals the number of live Sender handles; only clone (+1) and drop (-1)
\* change it; a decrement happens only when it is at least 1.
CountMatchesLive ==
  lock = Unlocked => senders_count = Cardinality(LiveSenders)

SendersCountExact ==
  /\ senders_count = 1
  /\ [][/\ CountMatchesLive
        /\ CountMatchesLive'
        /\ senders_count' >= 0
        /\ senders_count' # senders_count =>
             \E p \in Handles :
               \/ /\ pc[p] = "idle"
                  /\ pc'[p] = "clone_locked"
                  /\ senders_count' = senders_count + 1
               \/ /\ pc[p] = "drop_locked"
                  /\ pc'[p] = "drop_done"
                  /\ senders_count >= 1
                  /\ senders_count' = senders_count - 1]_vars

\* The lock is free, one Sender is dead and another is alive in the middle of
\* a send, after a clone.
SendersCountExactWitness ==
  /\ lock = Unlocked
  /\ senders_count = 1
  /\ \E p, q \in Handles : pc[p] = "dead" /\ pc[q] = "send_notify"

\* ==================================================================== C10
\* C10: the flag is true at construction and as long as the Reciever has not
\* been dropped, becomes false in the step that completes the Reciever's
\* drop, and once false is never true again.
ActiveMonotonic ==
  /\ active = TRUE
  /\ [][/\ ~active => ~active'
        /\ cpc # "dropped" => active
        /\ cpc' = "dropped" => ~active'
        /\ (active /\ ~active') => (cpc = "drop_locked" /\ cpc' = "dropped")
       ]_vars

\* The channel is closed and Senders went on cloning, sending and dropping.
ActiveMonotonicWitness ==
  /\ ~active
  /\ nsend = MaxSends
  /\ \E p, q \in Handles : pc[p] = "dead" /\ res[q] = "Err"

\* ==================================================================== C11
\* C11: buffer transparency. Every recv that returns returns what the recv
\* of the reference channel (no buffer, one pop of the queue under the lock
\* per call) returns at its turn: the front of the reference queue, or None
\* when that queue is empty, and then no Sender lives.
BufferTransparency ==
  [][RecvReturns =>
       /\ cres' = RefRecv(refQueue)
       /\ refQueue = <<>> => senders_count = 0]_vars

\* One value drained alone, then a burst of two drained through the buffer,
\* and the reference channel drained as well.
BufferTransparencyWitness ==
  /\ cpc = "idle"
  /\ Len(received) = 3
  /\ found = 2
  /\ lockFree = 1
  /\ refQueue = <<>>

\* ==================================================================== C12
\* C12: fast path. A recv that finds its buffer non-empty returns the
\* buffer's front, pops it, and changes neither the lock nor queue,
\* senders_count and the flag; recv acquires the lock only with an empty
\* buffer; and a recv that found k values in the queue under the lock is
\* followed by exactly k - 1 recv calls that return without the lock.
FastPath ==
  [][/\ (cpc = "recv_entry" /\ buffer # <<>> /\ cpc' # "recv_entry")
          => /\ cpc' = "idle"
             /\ cres' = RecvSome(Head(buffer))
             /\ buffer' = Tail(buffer)
             /\ lock' = lock
             /\ UNCHANGED shared
     /\ (cpc = "recv_entry" /\ cpc' = "loop")
          => /\ buffer = <<>>
             /\ found >= 1 => lockFree = found - 1
     /\ found' >= 1 => lockFree' + Len(buffer') = found' - 1]_vars

\* A burst of three sends, then three recv calls: the first one locked and
\* found all three, the other two returned without the lock.
FastPathWitness ==
  /\ cpc = "idle"
  /\ found = 3
  /\ lockFree = 2
  /\ buffer = <<>>
  /\ Len(received) = 3

\* ==================================================================== C13
\* C13: no loss and no duplication. While the Reciever is alive, the values
\* returned so far, then the buffer, then the queue make up exactly the
\* sequence of values the sends appended, in that order, and no element
\* occurs twice in it.
NoLossNoDup ==
  cpc # "dropped" =>
    /\ received \o buffer \o queue = sent
    /\ \A i, j \in 1..Len(sent) : i # j => sent[i] # sent[j]

\* One value has been returned, one waits in the buffer and one in the queue.
NoLossNoDupWitness ==
  /\ cpc # "dropped"
  /\ received # <<>>
  /\ buffer # <<>>
  /\ queue # <<>>

\* ==================================================================== C14
\* C14: buffer swap. recv holds the lock or waits only with an empty buffer;
\* popping the front of a queue of two or more leaves the queue empty and the
\* buffer holding the rest in order; popping a queue of one leaves both
\* empty; after the pop queue and buffer are never both non-empty.
BufferSwap ==
  [][/\ cpc \in {"loop", "waiting", "woken"} => buffer = <<>>
     /\ (cpc = "loop" /\ queue # <<>> /\ cpc' # "loop")
          => /\ cpc' = "idle"
             /\ cres' = RecvSome(Head(queue))
             /\ Len(queue) >= 2 => (queue' = <<>> /\ buffer' = Tail(queue))
             /\ Len(queue) = 1 => (queue' = <<>> /\ buffer' = <<>>)
             /\ ~(queue' # <<>> /\ buffer' # <<>>)]_vars

\* The swap has just moved the two values behind the popped one into the
\* buffer.
BufferSwapWitness ==
  /\ cpc = "idle"
  /\ found = 3
  /\ lockFree = 0
  /\ Len(buffer) = 2
  /\ queue = <<>>
  /\ lock = Unlocked

\* ==================================================================== C15
\* C15: re-check on every wake. A waiting Reciever only becomes woken; a
\* woken Reciever only takes the free lock and re-enters the loop, changing
\* nothing else; in the loop with an empty queue and senders_count > 0 it
\* only releases the lock and waits again, without returning and without
\* changing queue, senders_count, the flag or the buffer.
RecheckOnWake ==
  [][/\ (cpc = "waiting" /\ cpc' # "waiting")
          => /\ cpc' = "woken"
             /\ UNCHANGED <<buffer, cres, received>>
     /\ (cpc = "woken" /\ cpc' # "woken")
          => /\ cpc' = "loop"
             /\ lock = Unlocked
             /\ lock' = RxGuard
             /\ UNCHANGED <<shared, buffer, cres, received>>
     /\ cpc = "loop" => lock = RxGuard
     /\ (cpc = "loop" /\ queue = <<>> /\ senders_count > 0 /\ cpc' # "loop")
          => /\ cpc' = "waiting"
             /\ lock' = Unlocked
             /\ UNCHANGED <<shared, buffer, cres, received>>]_vars

\* The Reciever has been woken with nothing to deliver: every value sent was
\* returned before, every send has made its notify_one, a Sender lives.
RecheckOnWakeWitness ==
  /\ cpc = "woken"
  /\ queue = <<>>
  /\ senders_count > 0
  /\ sent # <<>>
  /\ received = sent
  /\ \A p \in Handles : pc[p] \in {"idle", "unborn"}

\* ==================================================================== C16
\* C16: the Reciever holds the lock exactly while it is in the loop of recv
\* or in its drop, never while it waits or is woken; and under fair
\* scheduling every Sender operation in progress while the Reciever waits
\* gets the lock and completes, unless the Reciever stops waiting first.
SenderBusy(p) == pc[p] \in {"send_entry", "send_locked", "send_pushed",
                            "send_notify", "clone_locked", "drop_locked",
                            "drop_done"}
LockFreeWhileSuspended ==
  /\ [](/\ lock = RxGuard <=> cpc \in {"loop", "drop_locked"}
        /\ cpc \in {"waiting", "woken"} => lock # RxGuard)
  /\ \A p \in Handles :
       (cpc = "waiting" /\ SenderBusy(p))
         ~> (pc[p] \in {"idle", "dead"} \/ cpc # "waiting")

\* The Reciever waits while one Sender holds the lock inside its drop and
\* the other has called send and wants the lock.
LockFreeWhileSuspendedWitness ==
  /\ cpc = "waiting"
  /\ \E p, q \in Handles : pc[p] = "drop_locked" /\ pc[q] = "send_entry"

\* ==================================================================== C17
\* C17 as stated: at the step where a send calls notify_one the sending thread
\* does not hold the lock and its value is in the shared queue.
SignalAfterUnlockInQueue ==
  [][\A p \in Handles :
       (pc[p] = "send_notify" /\ pc'[p] # "send_notify")
         => /\ lock # TxGuard(p)
            /\ \E i \in 1..Len(queue) : queue[i] = Elem(p, data[p])]_vars

\* C17 as amended: at the step where a send calls notify_one the sending
\* thread does not hold the lock and its value has already been appended to
\* the shared queue; the Reciever may have taken it out already.
SignalAfterUnlock ==
  [][\A p \in Handles :
       (pc[p] = "send_notify" /\ pc'[p] # "send_notify")
         => /\ lock # TxGuard(p)
            /\ notifies' = notifies + 1
            /\ \E i \in 1..Len(sent) : sent[i] = Elem(p, data[p])
            /\ \/ \E i \in 1..Len(queue) : queue[i] = Elem(p, data[p])
               \/ \E i \in 1..Len(buffer) : buffer[i] = Elem(p, data[p])
               \/ \E i \in 1..Len(received) : received[i] = Elem(p, data[p])
               \/ cpc = "dropped"]_vars

\* A send is about to call notify_one, the lock is free, and the Reciever
\* has already returned the value.
SignalAfterUnlockWitness ==
  \E p \in Handles :
    /\ pc[p] = "send_notify"
    /\ lock = Unlocked
    /\ queue = <<>>
    /\ received # <<>>
    /\ received[Len(received)] = Elem(p, data[p])

\* ==================================================================== C18
\* C18: a Sender's drop changes only the counter. Its decrement runs under
\* the lock, subtracts exactly 1, leaves queue, flag and buffer alone and
\* calls notify_one if and only if the result is 0; taking and releasing the
\* lock change nothing else.
SenderDropFrame ==
  [][\A p \in Handles :
       /\ (pc[p] = "drop_locked" /\ pc'[p] # "drop_locked")
            => /\ pc'[p] = "drop_done"
               /\ lock = TxGuard(p)
               /\ lock' = lock
               /\ senders_count' = senders_count - 1
               /\ UNCHANGED <<queue, active, buffer>>
               /\ IF senders_count' = 0
                    THEN notifies' = notifies + 1
                    ELSE notifies' = notifies /\ cpc' = cpc
       /\ (pc[p] = "idle" /\ pc'[p] = "drop_locked")
            => UNCHANGED <<shared, buffer, notifies, cpc>>
       /\ (pc[p] = "drop_done" /\ pc'[p] # "drop_done")
            => /\ pc'[p] = "dead"
               /\ UNCHANGED <<shared, buffer, notifies, cpc>>]_vars

\* A drop that was not the last one has decremented the count and left the
\* waiting Reciever asleep.
SenderDropFrameWitness ==
  /\ cpc = "waiting"
  /\ senders_count = 1
  /\ notifies = 0
  /\ \E p \in Handles : pc[p] = "drop_done"

\* ==================================================================== C19
\* C19: the Reciever's drop only clears the flag, under the lock: queue and
\* senders_count stay as they are, no notify_one is called, no Sender is
\* touched; afterwards the Reciever does nothing any more.
RecieverDropFrame ==
  [][/\ (cpc = "idle" /\ cpc' = "drop_locked")
          => /\ lock' = RxGuard
             /\ UNCHANGED <<shared, notifies, pc, res>>
     /\ (cpc = "drop_locked" /\ cpc' # "drop_locked")
          => /\ cpc' = "dropped"
             /\ lock = RxGuard
             /\ active' = FALSE
             /\ UNCHANGED <<queue, senders_count, notifies, pc, res>>
     /\ cpc = "dropped"
          => /\ cpc' = "dropped"
             /\ lock' # RxGuard
             /\ UNCHANGED <<queue, active, received>>]_vars

\* The Reciever is gone, a value is still queued, both Senders live and one
\* of them has called send.
RecieverDropFrameWitness ==
  /\ cpc = "dropped"
  /\ queue # <<>>
  /\ senders_count = 2
  /\ \E p \in Handles : pc[p] = "send_entry"

\* ==================================================================== C20
\* C20: zero Senders is terminal. senders_count becomes 0 only in the
\* decrement of the drop of the only live Sender handle; once it is 0 it
\* stays 0, no handle is live and nothing is appended to the queue.
ZeroSendersTerminal ==
  [][/\ (senders_count # 0 /\ senders_count' = 0)
          => \E p \in Handles :
               /\ pc[p] = "drop_locked"
               /\ pc'[p] = "drop_done"
               /\ LiveSenders = {p}
     /\ senders_count = 0
          => /\ senders_count' = 0
             /\ LiveSenders = {}
             /\ sent' = sent
             /\ Len(queue') <= Len(queue)]_vars

\* Both Senders are dead, values are still queued and the Reciever has
\* called recv.
ZeroSendersTerminalWitness ==
  /\ senders_count = 0
  /\ \A p \in Handles : pc[p] = "dead"
  /\ queue # <<>>
  /\ cpc = "recv_entry"

====
